---- MODULE Spec2Model ----
(***************************************************************************)
(* Master availability and job matching (schedule_manager.py).             *)
(*                                                                         *)
(* The masters table is a function from the ids of its rows to the rows;   *)
(* the schedule of a master is the JSON value of the row's schedule_json   *)
(* column.  Optional values are sequences of length at most one: None is   *)
(* the empty sequence.  A time string "HH:MM" is <<h, m>>, "HH:MM:SS" is   *)
(* <<h, m, s>>; a date string "YYYY-MM-DD" is the number of the day, day 0 *)
(* being a Monday.  A rating is counted in tenths (50 is 5.0): rating * 10 *)
(* is exact in IEEE doubles for every one-decimal rating from 0.0 to 5.0.  *)
(***************************************************************************)
EXTENDS Integers, Sequences, FiniteSets, TLC

(* datetime.now() is the hour `clock` of the day `today`; the jobs table is
   the sequence of its rows, the id of a job being its index *)
VARIABLES masters, jobs, today, clock, last, handlers

vars == <<masters, jobs, today, clock, last, handlers>>

----------------------------------------------------------------------------
(* Optional values *)

None == << >>

Some(x) == <<x>>

Truthy(o) == o # None

Val(o) == o[1]

----------------------------------------------------------------------------
(* datetime.time, datetime.datetime *)

Time(h, m) == [hour |-> h, minute |-> m, second |-> 0]

time_fromisoformat(s) ==
    [hour |-> s[1], minute |-> s[2], second |-> IF Len(s) > 2 THEN s[3] ELSE 0]

time_isoformat(t) == <<t.hour, t.minute, t.second>>

TimeLE(a, b) ==
    \/ a.hour < b.hour
    \/ a.hour = b.hour /\ a.minute < b.minute
    \/ a.hour = b.hour /\ a.minute = b.minute /\ a.second <= b.second

DateTime(d, h, m) == [day |-> d, hour |-> h, minute |-> m]

strftime(dt) == dt.day

strptime(s) == [day |-> s, hour |-> 0, minute |-> 0]

WeekLen == 7

weekday(dt) == dt.day % WeekLen

----------------------------------------------------------------------------
(* TimeSlot *)

TimeSlot(s, e) == [start |-> s, end |-> e]

(* a slot that its end time is not part of *)
TimeSlot_contains_EndExclusive(slot, check_time) ==
    /\ TimeLE(slot.start, check_time)
    /\ TimeLE(check_time, slot.end)
    /\ check_time # slot.end

TimeSlot_contains(slot, check_time) ==
    TimeLE(slot.start, check_time) /\ TimeLE(check_time, slot.end)

TimeSlot_to_dict(slot) ==
    [start |-> time_isoformat(slot.start), end |-> time_isoformat(slot.end)]

TimeSlot_from_dict(data) ==
    TimeSlot(time_fromisoformat(data.start), time_fromisoformat(data.end))

----------------------------------------------------------------------------
(* DaySchedule *)

DaySchedule(date, available, time_slot, booked_jobs) ==
    [date |-> date, available |-> available, time_slot |-> time_slot,
     booked_jobs |-> booked_jobs]

is_available_at(day, check_time) ==
    IF ~day.available THEN FALSE
    ELSE IF ~Truthy(day.time_slot) THEN FALSE
    ELSE TimeSlot_contains(Val(day.time_slot), check_time)

DaySchedule_to_dict(day) ==
    [date |-> strftime(day.date),
     available |-> day.available,
     time_slot |-> IF Truthy(day.time_slot)
                   THEN Some(TimeSlot_to_dict(Val(day.time_slot))) ELSE None,
     booked_jobs |-> day.booked_jobs]

DaySchedule_from_dict(data) ==
    DaySchedule(strptime(data.date),
                data.available,
                IF Truthy(data.time_slot)
                THEN Some(TimeSlot_from_dict(Val(data.time_slot))) ELSE None,
                data.booked_jobs)

----------------------------------------------------------------------------
(* ScheduleManager: the store *)

EmptySchedule == << >>

HasKey(schedule, key) == key \in DOMAIN schedule

Put(schedule, key, day) ==
    [k \in DOMAIN schedule \cup {key} |-> IF k = key THEN day ELSE schedule[k]]

(* an UPDATE with no WHERE: the schedule is written to every row *)
set_master_schedule_EveryRow(db, master_id, schedule) ==
    [id \in DOMAIN db |->
        [db[id] EXCEPT !.schedule_json =
            Some([k \in DOMAIN schedule |-> DaySchedule_to_dict(schedule[k])])]]

(* UPDATE masters SET schedule_json = ? WHERE id = ? *)
set_master_schedule(db, master_id, schedule) ==
    IF master_id \in DOMAIN db
    THEN [db EXCEPT ![master_id].schedule_json =
              Some([k \in DOMAIN schedule |-> DaySchedule_to_dict(schedule[k])])]
    ELSE db

(* SELECT schedule_json FROM masters WHERE id = ? *)
get_master_schedule(db, master_id) ==
    IF master_id \notin DOMAIN db THEN EmptySchedule
    ELSE IF ~Truthy(db[master_id].schedule_json) THEN EmptySchedule
    ELSE LET schedule_data == Val(db[master_id].schedule_json)
         IN  [k \in DOMAIN schedule_data |-> DaySchedule_from_dict(schedule_data[k])]

----------------------------------------------------------------------------
(* ScheduleManager: the operations on a loaded schedule *)

(* update_day_schedule that starts the entry's booked_jobs afresh *)
UpdateDay_ResetBooked(schedule, date, available, start_time, end_time) ==
    LET date_key == strftime(date)
        time_slot == IF available /\ Truthy(start_time) /\ Truthy(end_time)
                     THEN Some(TimeSlot(time_fromisoformat(Val(start_time)),
                                        time_fromisoformat(Val(end_time))))
                     ELSE None
    IN  Put(schedule, date_key, DaySchedule(date, available, time_slot, << >>))

(* update_day_schedule that builds the slot whether or not the day is available *)
UpdateDay_SlotWhenUnavailable(schedule, date, available, start_time, end_time) ==
    LET date_key == strftime(date)
        time_slot == IF Truthy(start_time) /\ Truthy(end_time)
                     THEN Some(TimeSlot(time_fromisoformat(Val(start_time)),
                                        time_fromisoformat(Val(end_time))))
                     ELSE None
        booked == IF HasKey(schedule, date_key)
                  THEN schedule[date_key].booked_jobs
                  ELSE << >>
    IN  Put(schedule, date_key, DaySchedule(date, available, time_slot, booked))

(* update_day_schedule between its load and its save *)
UpdateDay(schedule, date, available, start_time, end_time) ==
    LET date_key == strftime(date)
        time_slot == IF available /\ Truthy(start_time) /\ Truthy(end_time)
                     THEN Some(TimeSlot(time_fromisoformat(Val(start_time)),
                                        time_fromisoformat(Val(end_time))))
                     ELSE None
        booked == IF HasKey(schedule, date_key)
                  THEN schedule[date_key].booked_jobs
                  ELSE DaySchedule(date, FALSE, None, << >>).booked_jobs
    IN  Put(schedule, date_key, DaySchedule(date, available, time_slot, booked))

(* book_master_for_job that closes the booked day *)
BookJob_ClosesDay(schedule, job_id, date) ==
    [schedule EXCEPT ![strftime(date)] =
        [@ EXCEPT !.booked_jobs = Append(@, job_id), !.available = FALSE,
                  !.time_slot = None]]

(* book_master_for_job that puts the job first *)
BookJob_Prepend(schedule, job_id, date) ==
    [schedule EXCEPT ![strftime(date)].booked_jobs = <<job_id>> \o @]

(* book_master_for_job between its load and its save *)
BookJob(schedule, job_id, date) ==
    LET date_key == strftime(date)
    IN  [schedule EXCEPT ![date_key].booked_jobs = Append(@, job_id)]

DefaultWorkingDays == {0, 1, 2, 3, 4}

(* create_weekly_schedule that takes the loop index for the weekday *)
WeeklySchedule_WeekdayOfIndex(now, default_start, default_end, working_days) ==
    LET wd == IF working_days = None THEN {0, 1, 2, 3, 4} ELSE Val(working_days)
    IN  [k \in {now + i : i \in 0..(WeekLen - 1)} |->
            LET available == (k - now) \in wd
            IN  DaySchedule(DateTime(k, 0, 0), available,
                    IF available
                    THEN Some(TimeSlot(time_fromisoformat(default_start),
                                       time_fromisoformat(default_end)))
                    ELSE None,
                    << >>)]

(* create_weekly_schedule before its save *)
WeeklySchedule(now, default_start, default_end, working_days) ==
    LET wd == IF working_days = None THEN DefaultWorkingDays ELSE Val(working_days)
        dateOf(i) == DateTime(now + i, 0, 0)
    IN  [k \in {strftime(dateOf(i)) : i \in 0..(WeekLen - 1)} |->
            LET date == CHOOSE dt \in {dateOf(i) : i \in 0..(WeekLen - 1)} :
                            strftime(dt) = k
                available == weekday(date) \in wd
                time_slot == IF available
                             THEN Some(TimeSlot(time_fromisoformat(default_start),
                                                time_fromisoformat(default_end)))
                             ELSE None
            IN  DaySchedule(date, available, time_slot, << >>)]

(* update_day_schedule that saves the written day alone *)
update_day_schedule_DayAlone(db, master_id, date, available, start_time, end_time) ==
    LET schedule == UpdateDay(get_master_schedule(db, master_id), date, available,
                              start_time, end_time)
    IN  set_master_schedule(db, master_id,
            Put(EmptySchedule, strftime(date), schedule[strftime(date)]))

update_day_schedule(db, master_id, date, available, start_time, end_time) ==
    set_master_schedule(db, master_id,
        UpdateDay(get_master_schedule(db, master_id), date, available,
                  start_time, end_time))

(* book_master_for_job that books a job once, and only on an available day *)
book_master_for_job_Checked(db, master_id, job_id, date) ==
    LET schedule == get_master_schedule(db, master_id)
        date_key == strftime(date)
    IN  IF /\ HasKey(schedule, date_key)
           /\ schedule[date_key].available
           /\ \A i \in 1..Len(schedule[date_key].booked_jobs) :
                  schedule[date_key].booked_jobs[i] # job_id
        THEN set_master_schedule(db, master_id, BookJob(schedule, job_id, date))
        ELSE db

(* book_master_for_job that creates the entry of a date that has none *)
book_master_for_job_CreatesDay(db, master_id, job_id, date) ==
    LET schedule == get_master_schedule(db, master_id)
    IN  IF HasKey(schedule, strftime(date))
        THEN set_master_schedule(db, master_id, BookJob(schedule, job_id, date))
        ELSE set_master_schedule(db, master_id,
                 Put(schedule, strftime(date),
                     DaySchedule(date, TRUE, None, <<job_id>>)))

book_master_for_job(db, master_id, job_id, date) ==
    LET schedule == get_master_schedule(db, master_id)
    IN  IF HasKey(schedule, strftime(date))
        THEN set_master_schedule(db, master_id, BookJob(schedule, job_id, date))
        ELSE db

(* create_weekly_schedule that keeps the stored dates outside the new week *)
create_weekly_schedule_Merge(db, master_id, now, default_start, default_end, working_days) ==
    LET old == get_master_schedule(db, master_id)
        week == WeeklySchedule(now, default_start, default_end, working_days)
    IN  set_master_schedule(db, master_id,
            [k \in DOMAIN old \cup DOMAIN week |->
                IF k \in DOMAIN week THEN week[k] ELSE old[k]])

(* create_weekly_schedule that keeps the bookings of the days of the new week *)
create_weekly_schedule_KeepsBooked(db, master_id, now, default_start, default_end, working_days) ==
    LET old == get_master_schedule(db, master_id)
        week == WeeklySchedule(now, default_start, default_end, working_days)
    IN  set_master_schedule(db, master_id,
            [k \in DOMAIN week |->
                IF k \in DOMAIN old
                THEN [week[k] EXCEPT !.booked_jobs = old[k].booked_jobs]
                ELSE week[k]])

create_weekly_schedule(db, master_id, now, default_start, default_end, working_days) ==
    set_master_schedule(db, master_id,
        WeeklySchedule(now, default_start, default_end, working_days))

(* is_master_available where the time 00:00 counts as no time given *)
is_master_available_MidnightFalsy(db, master_id, date, check_time) ==
    LET schedule == get_master_schedule(db, master_id)
        date_key == strftime(date)
    IN  IF ~HasKey(schedule, date_key) THEN FALSE
        ELSE IF Truthy(check_time) /\ Val(check_time) # Time(0, 0)
             THEN is_available_at(schedule[date_key], Val(check_time))
             ELSE schedule[date_key].available

is_master_available(db, master_id, date, check_time) ==
    LET schedule == get_master_schedule(db, master_id)
        date_key == strftime(date)
    IN  IF ~HasKey(schedule, date_key) THEN FALSE
        ELSE IF Truthy(check_time)
             THEN is_available_at(schedule[date_key], Val(check_time))
             ELSE schedule[date_key].available

get_master_workload(db, master_id, date) ==
    LET schedule == get_master_schedule(db, master_id)
        date_key == strftime(date)
    IN  IF ~HasKey(schedule, date_key) THEN 0
        ELSE Len(schedule[date_key].booked_jobs)

----------------------------------------------------------------------------
(* Texts are sequences of tokens.  json.dumps writes a list of tags as      *)
(* ["tag", "tag"]; LIKE '%pattern%' holds of a text the pattern occurs in.  *)

RECURSIVE JoinTags(_)
JoinTags(tags) ==
    IF tags = << >> THEN << >>
    ELSE <<"\"">> \o Head(tags) \o <<"\"">>
         \o (IF Tail(tags) = << >> THEN << >> ELSE <<", ">> \o JoinTags(Tail(tags)))

json_dumps(tags) == <<"[">> \o JoinTags(tags) \o <<"]">>

Like(text, pattern) ==
    \E i \in 0..(Len(text) - Len(pattern)) :
        \A j \in 1..Len(pattern) : text[i + j] = pattern[j]

----------------------------------------------------------------------------
(* ScheduleManager: matching *)

(* SELECT id FROM masters WHERE is_active = 1 AND city = ? AND specializations LIKE ? *)
ActiveMasters(db, specialization, city) ==
    {id \in DOMAIN db :
        /\ db[id].is_active
        /\ db[id].city = city
        /\ Like(db[id].specializations, specialization)}

(* the rows of a SELECT without ORDER BY come in an order SQL leaves open *)
QueryOrders(ids) ==
    {o \in [1..Cardinality(ids) -> ids] : \A i, j \in 1..Cardinality(ids) : o[i] = o[j] => i = j}

RECURSIVE FilterAvailable(_, _, _, _)
FilterAvailable(db, all_masters, date, check_time) ==
    IF all_masters = << >> THEN << >>
    ELSE (IF is_master_available(db, Head(all_masters), date, check_time)
          THEN <<Head(all_masters)>> ELSE << >>)
         \o FilterAvailable(db, Tail(all_masters), date, check_time)

get_available_masters(db, all_masters, date, check_time) ==
    FilterAvailable(db, all_masters, date, check_time)

DefaultRating == 50

(* a default that stands in for a NULL rating only *)
RatingOr_NullOnly(db, master_id) ==
    IF db[master_id].rating = None THEN DefaultRating ELSE Val(db[master_id].rating)

(* cursor.fetchone()[0] or 5.0 *)
RatingOr(db, master_id) ==
    IF db[master_id].rating = None \/ Val(db[master_id].rating) = 0
    THEN DefaultRating ELSE Val(db[master_id].rating)

(* a score that rises with the workload *)
Score_AddsWorkload(db, master_id, date) ==
    RatingOr(db, master_id) + get_master_workload(db, master_id, date)

(* score = (rating * 10) - workload, the rating counted in tenths *)
Score(db, master_id, date) ==
    RatingOr(db, master_id) - get_master_workload(db, master_id, date)

(* list.sort(key = score, reverse = True): stable, the higher score first *)
RECURSIVE InsertByScore(_, _)
InsertByScore(sorted, pair) ==
    IF sorted = << >> THEN <<pair>>
    ELSE IF Head(sorted)[2] >= pair[2]
         THEN <<Head(sorted)>> \o InsertByScore(Tail(sorted), pair)
         ELSE <<pair>> \o sorted

RECURSIVE SortByScore(_)
SortByScore(master_scores) ==
    IF master_scores = << >> THEN << >>
    ELSE InsertByScore(SortByScore(SubSeq(master_scores, 1, Len(master_scores) - 1)),
                       master_scores[Len(master_scores)])

(* master_scores.append((master_id, score)) for each available master *)
master_scores(db, available_masters, date) ==
    [i \in 1..Len(available_masters) |->
        <<available_masters[i], Score(db, available_masters[i], date)>>]

find_best_available_master(db, all_masters, date, check_time) ==
    LET available_masters == get_available_masters(db, all_masters, date, check_time)
    IN  IF available_masters = << >> THEN None
        ELSE Some(SortByScore(master_scores(db, available_masters, date))[1][1])

----------------------------------------------------------------------------
(* Bounds and inputs *)

(* bookings one master's record holds *)
MaxBooked == 2

(* days the clock advances *)
MaxToday == 1

JobIds == {1, 2}

(* a date after every weekly window *)
FarDay == MaxToday + WeekLen + 1

NearDate == DateTime(1, 14, 30)

FarDate == DateTime(FarDay, 0, 0)

DayArgs ==
    { <<FALSE, None, None>>,
      <<FALSE, Some(<<9, 0>>), Some(<<18, 0>>)>>,
      <<TRUE, Some(<<9, 0>>), Some(<<18, 0>>)>>,
      <<TRUE, Some(<<18, 0>>), Some(<<9, 0>>)>>,
      <<TRUE, None, None>> }

(* the tag "electrical", of which "electric" is a part *)
Electrical == <<"electric", "al">>

Plumbing == <<"plumbing">>

(* master 1 has a row in the masters table, master 2 has none *)
UpdateCalls ==
    {<<1, NearDate, a[1], a[2], a[3]>> : a \in DayArgs}
    \cup {<<m, FarDate, TRUE, Some(<<9, 0>>), Some(<<18, 0>>)>> : m \in {1, 2}}

BookCalls ==
    {<<1, j, NearDate>> : j \in JobIds} \cup {<<1, 1, FarDate>>, <<2, 1, NearDate>>}

WeeklyCalls ==
    { <<1, <<8, 0>>, <<20, 0>>, None>>,
      <<1, <<9, 0>>, <<18, 0>>, Some({1, 5, 6})>>,
      <<2, <<8, 0>>, <<20, 0>>, None>> }

CheckTimes ==
    {None, Some(Time(0, 0)), Some(Time(9, 0)), Some(Time(18, 0)), Some(Time(18, 30))}

AvailableCalls ==
    {<<1, NearDate, t>> : t \in CheckTimes} \cup {<<2, NearDate, None>>}

WorkloadCalls == {<<1, NearDate>>, <<2, NearDate>>}

----------------------------------------------------------------------------
(* The masters table *)

(* a row as it is inserted: terminal_active BOOLEAN DEFAULT 0, no schedule
   and no confirmation *)
Row(specializations, city, rating, is_active) ==
    [specializations |-> specializations, city |-> city, rating |-> rating,
     is_active |-> is_active, terminal_active |-> FALSE, schedule_json |-> None,
     last_schedule_confirmation |-> None]

Idle == [pc |-> "idle"]

Call(op, args, before, ret) == [op |-> op, args |-> args, before |-> before, ret |-> ret]

Init ==
    /\ masters = (1 :> Row(json_dumps(<<Electrical>>), "Kaliningrad", Some(50), TRUE))
    /\ today = 0
    /\ clock = 0
    /\ jobs = << >>
    /\ last = Call("init", << >>, masters, None)
    /\ handlers = << >>

----------------------------------------------------------------------------
(* One action per call of ScheduleManager; a call runs from load to save. *)

RECURSIVE Sum(_, _)
Sum(f, S) == IF S = {} THEN 0 ELSE LET x == CHOOSE y \in S : TRUE IN f[x] + Sum(f, S \ {x})

Booked(db, master_id) ==
    LET schedule == get_master_schedule(db, master_id)
    IN  Sum([k \in DOMAIN schedule |-> Len(schedule[k].booked_jobs)], DOMAIN schedule)

Room(db, master_id) == Booked(db, master_id) < MaxBooked

UpdateDaySchedule(master_id, date, available, start_time, end_time) ==
    /\ masters' = update_day_schedule(masters, master_id, date, available,
                                      start_time, end_time)
    /\ last' = Call("update_day_schedule",
                    [master_id |-> master_id, date |-> date, available |-> available,
                     start_time |-> start_time, end_time |-> end_time],
                    masters, None)
    /\ UNCHANGED <<jobs, today, clock, handlers>>

BookMasterForJob(master_id, job_id, date) ==
    /\ Room(masters, master_id)
    /\ masters' = book_master_for_job(masters, master_id, job_id, date)
    /\ last' = Call("book_master_for_job",
                    [master_id |-> master_id, job_id |-> job_id, date |-> date],
                    masters, None)
    /\ UNCHANGED <<jobs, today, clock, handlers>>

CreateWeeklySchedule(master_id, default_start, default_end, working_days) ==
    /\ masters' = create_weekly_schedule(masters, master_id, today, default_start,
                                         default_end, working_days)
    /\ last' = Call("create_weekly_schedule",
                    [master_id |-> master_id, default_start |-> default_start,
                     default_end |-> default_end, working_days |-> working_days,
                     now |-> today],
                    masters, None)
    /\ UNCHANGED <<jobs, today, clock, handlers>>

(* is_master_available that saves the schedule it loaded *)
IsMasterAvailable_SavesBack(master_id, date, check_time) ==
    /\ masters' = set_master_schedule(masters, master_id,
                                      get_master_schedule(masters, master_id))
    /\ last' = Call("is_master_available",
                    [master_id |-> master_id, date |-> date, check_time |-> check_time],
                    masters, is_master_available(masters, master_id, date, check_time))
    /\ UNCHANGED <<jobs, today, clock, handlers>>

IsMasterAvailable(master_id, date, check_time) ==
    /\ last' = Call("is_master_available",
                    [master_id |-> master_id, date |-> date, check_time |-> check_time],
                    masters, is_master_available(masters, master_id, date, check_time))
    /\ UNCHANGED <<jobs, masters, today, clock, handlers>>

GetMasterWorkload(master_id, date) ==
    /\ last' = Call("get_master_workload",
                    [master_id |-> master_id, date |-> date],
                    masters, get_master_workload(masters, master_id, date))
    /\ UNCHANGED <<jobs, masters, today, clock, handlers>>

(* datetime.now() moves to the next day *)
Tick ==
    /\ today < MaxToday
    /\ today' = today + 1
    /\ UNCHANGED <<jobs, masters, clock, last, handlers>>

Next ==
    \/ \E c \in UpdateCalls : UpdateDaySchedule(c[1], c[2], c[3], c[4], c[5])
    \/ \E c \in BookCalls : BookMasterForJob(c[1], c[2], c[3])
    \/ \E c \in WeeklyCalls : CreateWeeklySchedule(c[1], c[2], c[3], c[4])
    \/ \E c \in AvailableCalls : IsMasterAvailable(c[1], c[2], c[3])
    \/ \E c \in WorkloadCalls : GetMasterWorkload(c[1], c[2])
    \/ Tick

Spec == Init /\ [][Next]_vars

----------------------------------------------------------------------------
(* Two handlers, each a ScheduleManager on a connection of its own, call    *)
(* the mutating methods at the same time.  No transaction spans the SELECT  *)
(* of get_master_schedule and the UPDATE of set_master_schedule, so a call  *)
(* is two steps: it loads, and later it changes its copy and saves it.      *)

Handlers == {1, 2}

RaceCalls ==
    { [op |-> "update_day_schedule", master_id |-> 1, date |-> NearDate,
       available |-> TRUE, start_time |-> Some(<<9, 0>>), end_time |-> Some(<<18, 0>>)],
      [op |-> "update_day_schedule", master_id |-> 1, date |-> NearDate,
       available |-> FALSE, start_time |-> None, end_time |-> None],
      [op |-> "book_master_for_job", master_id |-> 1, job_id |-> 1, date |-> NearDate],
      [op |-> "book_master_for_job", master_id |-> 1, job_id |-> 2, date |-> NearDate] }

Handler(pc, call, schedule, done) ==
    [pc |-> pc, call |-> call, schedule |-> schedule, done |-> done]

InitRace ==
    /\ masters = (1 :> Row(json_dumps(<<Electrical>>), "Kaliningrad", Some(50), TRUE))
    /\ today = 0
    /\ clock = 0
    /\ jobs = << >>
    /\ last = Call("init", << >>, masters, None)
    /\ handlers = [h \in Handlers |-> Handler("idle", None, EmptySchedule, None)]

(* a call that reads the record again when it saves *)
LoadedSchedule_ReadAtSave(h) ==
    get_master_schedule(masters, Val(handlers[h].call).master_id)

(* the copy of the schedule the call works on *)
LoadedSchedule(h) == handlers[h].schedule

(* schedule = self.get_master_schedule(master_id) *)
Load(h, call) ==
    /\ handlers[h].pc = "idle"
    /\ Room(masters, call.master_id)
    /\ handlers' = [handlers EXCEPT ![h] =
          Handler("loaded", Some(call), get_master_schedule(masters, call.master_id), @.done)]
    /\ UNCHANGED <<jobs, masters, today, clock, last>>

(* update_day_schedule from its load on *)
SaveUpdate(h) ==
    /\ handlers[h].pc = "loaded"
    /\ Val(handlers[h].call).op = "update_day_schedule"
    /\ LET call == Val(handlers[h].call)
       IN  /\ masters' = set_master_schedule(masters, call.master_id,
                             UpdateDay(LoadedSchedule(h), call.date, call.available,
                                       call.start_time, call.end_time))
           /\ last' = Call("save", [handler |-> h, call |-> call,
                                    loaded |-> handlers[h].schedule], masters, None)
           /\ handlers' = [handlers EXCEPT ![h] =
                 Handler("idle", None, EmptySchedule, Some([call |-> call, saved |-> TRUE]))]
    /\ UNCHANGED <<jobs, today, clock>>

(* book_master_for_job from its load on, on a date its copy has *)
SaveBook(h) ==
    /\ handlers[h].pc = "loaded"
    /\ Val(handlers[h].call).op = "book_master_for_job"
    /\ HasKey(LoadedSchedule(h), strftime(Val(handlers[h].call).date))
    /\ LET call == Val(handlers[h].call)
       IN  /\ masters' = set_master_schedule(masters, call.master_id,
                             BookJob(LoadedSchedule(h), call.job_id, call.date))
           /\ last' = Call("save", [handler |-> h, call |-> call,
                                    loaded |-> handlers[h].schedule], masters, None)
           /\ handlers' = [handlers EXCEPT ![h] =
                 Handler("idle", None, EmptySchedule, Some([call |-> call, saved |-> TRUE]))]
    /\ UNCHANGED <<jobs, today, clock>>

(* book_master_for_job from its load on, on a date its copy lacks *)
SkipBook(h) ==
    /\ handlers[h].pc = "loaded"
    /\ Val(handlers[h].call).op = "book_master_for_job"
    /\ ~HasKey(LoadedSchedule(h), strftime(Val(handlers[h].call).date))
    /\ handlers' = [handlers EXCEPT ![h] =
          Handler("idle", None, EmptySchedule,
                  Some([call |-> Val(handlers[h].call), saved |-> FALSE]))]
    /\ UNCHANGED <<jobs, masters, today, clock, last>>

NextRace ==
    \/ \E h \in Handlers, c \in RaceCalls : Load(h, c)
    \/ \E h \in Handlers : SaveUpdate(h)
    \/ \E h \in Handlers : SaveBook(h)
    \/ \E h \in Handlers : SkipBook(h)

SpecRace == InitRace /\ [][NextRace]_vars

----------------------------------------------------------------------------
(* Two handlers at the same time, each on a master of its own: handler h   *)
(* writes the record of master h only.                                      *)

ApartCalls(h) ==
    { [op |-> "update_day_schedule", master_id |-> h, date |-> NearDate,
       available |-> TRUE, start_time |-> Some(<<9, 0>>), end_time |-> Some(<<18, 0>>)],
      [op |-> "book_master_for_job", master_id |-> h, job_id |-> h, date |-> NearDate] }

ApartWeeklyCalls == {<<1, <<8, 0>>, <<20, 0>>, None>>}

InitApart ==
    /\ masters = (1 :> Row(json_dumps(<<Electrical>>), "Kaliningrad", Some(50), TRUE))
              @@ (2 :> Row(json_dumps(<<Plumbing>>), "Kaliningrad", Some(50), TRUE))
    /\ jobs = << >>
    /\ today = 0
    /\ clock = 0
    /\ last = Call("init", << >>, masters, None)
    /\ handlers = [h \in Handlers |-> Handler("idle", None, EmptySchedule, None)]

NextApart ==
    \/ \E h \in Handlers : \E c \in ApartCalls(h) : Load(h, c)
    \/ \E h \in Handlers : SaveUpdate(h)
    \/ \E h \in Handlers : SaveBook(h)
    \/ \E h \in Handlers : SkipBook(h)
    \/ \E c \in ApartWeeklyCalls :
          handlers[c[1]].pc = "idle" /\ CreateWeeklySchedule(c[1], c[2], c[3], c[4])

SpecApart == InitApart /\ [][NextApart]_vars

----------------------------------------------------------------------------
(* Matching: three masters of one city and one trade set their day, are     *)
(* booked, and the best available master is looked up.                      *)

MatchRatings == {None, Some(0)}

MatchUpdateCalls ==
    {<<m, NearDate, TRUE, Some(<<9, 0>>), Some(<<18, 0>>)>> : m \in {1, 2, 3}}
    \cup {<<1, NearDate, FALSE, None, None>>}

MatchBookCalls == {<<m, 1, NearDate>> : m \in {1, 2, 3}}

(* the query "electric" is a part of the tag "electrical" and no tag itself *)
Electric == <<"electric">>

FindCalls ==
    {<<Electrical, "Kaliningrad", NearDate, t>> : t \in {None, Some(Time(9, 0))}}
    \cup {<<Electric, "Kaliningrad", NearDate, None>>}

MatchAvailableCalls == {<<1, NearDate, Some(Time(9, 0))>>}

MatchWorkloadCalls == {<<1, NearDate>>}

CandidateCalls ==
    {<<Electrical, "Kaliningrad", NearDate, Some(Time(9, 0))>>,
     <<Plumbing, "Kaliningrad", NearDate, None>>,
     <<Electric, "Kaliningrad", NearDate, None>>,
     <<Electrical, "Moscow", NearDate, None>>}

InitMatch ==
    /\ \E r \in MatchRatings :
          masters = (1 :> Row(json_dumps(<<Electrical>>), "Kaliningrad", Some(50), TRUE))
                 @@ (2 :> Row(json_dumps(<<Electrical, Plumbing>>), "Kaliningrad", Some(49), TRUE))
                 @@ (3 :> Row(json_dumps(<<Electrical>>), "Kaliningrad", r, TRUE))
    /\ today = 0
    /\ clock = 0
    /\ jobs = << >>
    /\ last = Call("init", << >>, masters, None)
    /\ handlers = << >>

(* the SELECT returns the active masters of the trade and city in some order *)
FindBestAvailableMaster(specialization, city, date, check_time) ==
    \E all_masters \in QueryOrders(ActiveMasters(masters, specialization, city)) :
        /\ last' = Call("find_best_available_master",
                        [specialization |-> specialization, city |-> city, date |-> date,
                         check_time |-> check_time, all_masters |-> all_masters,
                         master_scores |->
                             master_scores(masters,
                                 get_available_masters(masters, all_masters, date, check_time),
                                 date)],
                        masters,
                        find_best_available_master(masters, all_masters, date, check_time))
        /\ UNCHANGED <<jobs, masters, today, clock, handlers>>

GetAvailableMasters(specialization, city, date, check_time) ==
    \E all_masters \in QueryOrders(ActiveMasters(masters, specialization, city)) :
        /\ last' = Call("get_available_masters",
                        [specialization |-> specialization, city |-> city, date |-> date,
                         check_time |-> check_time, all_masters |-> all_masters],
                        masters,
                        get_available_masters(masters, all_masters, date, check_time))
        /\ UNCHANGED <<jobs, masters, today, clock, handlers>>

NextMatch ==
    \/ \E c \in MatchUpdateCalls : UpdateDaySchedule(c[1], c[2], c[3], c[4], c[5])
    \/ \E c \in MatchBookCalls : BookMasterForJob(c[1], c[2], c[3])
    \/ \E c \in FindCalls : FindBestAvailableMaster(c[1], c[2], c[3], c[4])
    \/ \E c \in CandidateCalls : GetAvailableMasters(c[1], c[2], c[3], c[4])
    \/ \E c \in MatchAvailableCalls : IsMasterAvailable(c[1], c[2], c[3])
    \/ \E c \in MatchWorkloadCalls : GetMasterWorkload(c[1], c[2])

SpecMatch == InitMatch /\ [][NextMatch]_vars

----------------------------------------------------------------------------
(* Balancing: two masters of equal rating, both available on the date and   *)
(* with no bookings; each round looks up the best available master and      *)
(* books the next job for the master returned.                              *)

MaxRounds == 6

BalanceRatings == {None, Some(0), Some(45), Some(50)}

BalanceTimes == {None, Some(Time(9, 0))}

InitBalance ==
    /\ \E r \in BalanceRatings :
          masters =
              update_day_schedule(
                  update_day_schedule(
                      (1 :> Row(json_dumps(<<Electrical>>), "Kaliningrad", r, TRUE))
                      @@ (2 :> Row(json_dumps(<<Electrical, Plumbing>>), "Kaliningrad", r, TRUE)),
                      1, NearDate, TRUE, Some(<<9, 0>>), Some(<<18, 0>>)),
                  2, NearDate, TRUE, Some(<<9, 0>>), Some(<<18, 0>>))
    /\ jobs = << >>
    /\ today = 0
    /\ clock = 0
    /\ last = Call("init", << >>, masters, None)
    /\ handlers = << >>

(* the jobs booked so far, over all masters *)
Rounds(db) == Sum([m \in DOMAIN db |-> Booked(db, m)], DOMAIN db)

(* find_best_available_master, then book_master_for_job for the master it
   returned; the jobs are numbered in the order they are booked *)
FindBestThenBook(specialization, city, date, check_time) ==
    /\ Rounds(masters) < MaxRounds
    /\ \E all_masters \in QueryOrders(ActiveMasters(masters, specialization, city)) :
          LET best == find_best_available_master(masters, all_masters, date, check_time)
          IN  /\ masters' = IF best = None THEN masters
                            ELSE book_master_for_job(masters, Val(best),
                                                     Rounds(masters) + 1, date)
              /\ last' = Call("find_best_then_book",
                              [specialization |-> specialization, city |-> city,
                               date |-> date, check_time |-> check_time,
                               all_masters |-> all_masters],
                              masters, best)
    /\ UNCHANGED <<jobs, today, clock, handlers>>

NextBalance ==
    \E t \in BalanceTimes : FindBestThenBook(Electrical, "Kaliningrad", NearDate, t)

SpecBalance == InitBalance /\ [][NextBalance]_vars

----------------------------------------------------------------------------
(* Intake (main.py): masters register, switch their terminal on and off,   *)
(* and the intake flow looks up a master by rating alone.                   *)

MaxMasters == 4

ColumnDefaultRating == 50

IntakeRatings == {None, Some(50)}

RegisterCalls == {<<<<Electrical>>, "Kaliningrad">>, <<<<Plumbing>>, "Moscow">>}

IntakeCalls ==
    {<<Electrical, "Kaliningrad">>, <<Electric, "Kaliningrad">>, <<Plumbing, "Kaliningrad">>}

(* master 2 marks the day as a day off *)
IntakeDayCalls == {<<2, NearDate, FALSE, None, None>>}

InitIntake ==
    /\ \E r \in IntakeRatings :
          masters = (1 :> Row(json_dumps(<<Electrical>>), "Kaliningrad", Some(50), TRUE))
                 @@ (2 :> Row(json_dumps(<<Electrical, Plumbing>>), "Kaliningrad", Some(45), TRUE))
                 @@ (3 :> Row(json_dumps(<<Electrical>>), "Kaliningrad", r, TRUE))
    /\ today = 0
    /\ clock = 0
    /\ jobs = << >>
    /\ last = Call("init", << >>, masters, None)
    /\ handlers = << >>

(* INSERT INTO masters (..., specializations, city, ...): AUTOINCREMENT id,
   rating, is_active and terminal_active take the column defaults *)
register_master(db, specializations, city) ==
    LET master_id == 1 + Cardinality(DOMAIN db)
    IN  db @@ (master_id :> Row(json_dumps(specializations), city,
                                Some(ColumnDefaultRating), TRUE))

(* UPDATE masters SET terminal_active = ? WHERE id = ? *)
set_terminal_active(db, master_id, terminal_active) ==
    IF master_id \in DOMAIN db
    THEN [db EXCEPT ![master_id].terminal_active = terminal_active]
    ELSE db

(* ORDER BY rating DESC: a NULL rating sorts below every number *)
RatingGE(db, a, b) ==
    \/ db[b].rating = None
    \/ db[a].rating # None /\ Val(db[a].rating) >= Val(db[b].rating)

TerminalMasters_IgnoreTerminal(db, category, city) ==
    {id \in DOMAIN db :
        /\ db[id].is_active
        /\ db[id].city = city
        /\ Like(db[id].specializations, category)}

(* WHERE is_active = 1 AND terminal_active = 1 AND city = ? AND specializations LIKE ? *)
TerminalMasters(db, category, city) ==
    {id \in DOMAIN db :
        /\ db[id].is_active
        /\ db[id].terminal_active
        /\ db[id].city = city
        /\ Like(db[id].specializations, category)}

(* the results ORDER BY rating DESC LIMIT 1 can give: a row no other row of
   the selection outranks, None if the selection is empty *)
find_available_master(db, category, city) ==
    LET rows == TerminalMasters(db, category, city)
    IN  IF rows = {} THEN {None}
        ELSE {Some(id) : id \in {a \in rows : \A b \in rows : RatingGE(db, a, b)}}

RegisterMaster(specializations, city) ==
    /\ Cardinality(DOMAIN masters) < MaxMasters
    /\ masters' = register_master(masters, specializations, city)
    /\ last' = Call("register_master", [specializations |-> specializations, city |-> city],
                    masters, Some(1 + Cardinality(DOMAIN masters)))
    /\ UNCHANGED <<jobs, today, clock, handlers>>

(* answers 404 if no row was updated *)
ActivateTerminal(master_id) ==
    /\ masters' = set_terminal_active(masters, master_id, TRUE)
    /\ last' = Call("activate_terminal", [master_id |-> master_id], masters,
                    IF master_id \in DOMAIN masters THEN Some(200) ELSE Some(404))
    /\ UNCHANGED <<jobs, today, clock, handlers>>

UpdateTerminalStatus(master_id, terminal_active) ==
    /\ masters' = set_terminal_active(masters, master_id, terminal_active)
    /\ last' = Call("update_terminal_status",
                    [master_id |-> master_id, terminal_active |-> terminal_active],
                    masters, Some(200))
    /\ UNCHANGED <<jobs, today, clock, handlers>>

FindAvailableMaster(category, city) ==
    \E result \in find_available_master(masters, category, city) :
        /\ last' = Call("find_available_master", [category |-> category, city |-> city],
                        masters, result)
        /\ UNCHANGED <<jobs, masters, today, clock, handlers>>

NextIntake ==
    \/ \E c \in RegisterCalls : RegisterMaster(c[1], c[2])
    \/ \E m \in 1..(MaxMasters + 1) : ActivateTerminal(m)
    \/ \E m \in 1..MaxMasters : UpdateTerminalStatus(m, FALSE)
    \/ \E c \in IntakeCalls : FindAvailableMaster(c[1], c[2])
    \/ \E c \in IntakeDayCalls : UpdateDaySchedule(c[1], c[2], c[3], c[4], c[5])

SpecIntake == InitIntake /\ [][NextIntake]_vars

----------------------------------------------------------------------------
(* Daily confirmation: a master confirms the schedule, the hours pass, and  *)
(* the platform asks whether a confirmation is due.  A timestamp string is  *)
(* <<day, hour>>.                                                           *)

ConfirmationHours == 12

Now == [day |-> today, hour |-> clock]

datetime_isoformat(dt) == <<dt.day, dt.hour>>

datetime_fromisoformat(text) == [day |-> text[1], hour |-> text[2]]

(* a - b of two datetimes, in hours *)
HoursBetween(a, b) == (a.day - b.day) * 24 + (a.hour - b.hour)

(* UPDATE masters SET last_schedule_confirmation = ? WHERE id = ? *)
confirm_daily_schedule(db, master_id, now) ==
    IF master_id \in DOMAIN db
    THEN [db EXCEPT ![master_id].last_schedule_confirmation = Some(datetime_isoformat(now))]
    ELSE db

needs_schedule_confirmation_AtLeast(db, master_id, now) ==
    IF master_id \notin DOMAIN db \/ ~Truthy(db[master_id].last_schedule_confirmation)
    THEN TRUE
    ELSE LET last_confirmation ==
                 datetime_fromisoformat(Val(db[master_id].last_schedule_confirmation))
         IN  HoursBetween(now, last_confirmation) >= ConfirmationHours

needs_schedule_confirmation(db, master_id, now) ==
    IF master_id \notin DOMAIN db \/ ~Truthy(db[master_id].last_schedule_confirmation)
    THEN TRUE
    ELSE LET last_confirmation ==
                 datetime_fromisoformat(Val(db[master_id].last_schedule_confirmation))
         IN  HoursBetween(now, last_confirmation) > ConfirmationHours

ConfirmCalls == {1, 2}

ConfirmDailySchedule(master_id) ==
    /\ masters' = confirm_daily_schedule(masters, master_id, Now)
    /\ last' = Call("confirm_daily_schedule", [master_id |-> master_id, now |-> Now],
                    masters, Some(TRUE))
    /\ UNCHANGED <<jobs, today, clock, handlers>>

NeedsScheduleConfirmation(master_id) ==
    /\ last' = Call("needs_schedule_confirmation", [master_id |-> master_id, now |-> Now],
                    masters, Some(needs_schedule_confirmation(masters, master_id, Now)))
    /\ UNCHANGED <<jobs, masters, today, clock, handlers>>

(* datetime.now() moves on by an hour *)
TickHour ==
    /\ today < MaxToday \/ clock < 23
    /\ IF clock < 23
       THEN clock' = clock + 1 /\ today' = today
       ELSE clock' = 0 /\ today' = today + 1
    /\ UNCHANGED <<jobs, masters, last, handlers>>

NextConfirm ==
    \/ \E m \in ConfirmCalls : ConfirmDailySchedule(m)
    \/ \E m \in ConfirmCalls : NeedsScheduleConfirmation(m)
    \/ TickHour

SpecConfirm == Init /\ [][NextConfirm]_vars

----------------------------------------------------------------------------
(* Time slots: a time is looked up in a slot, `check_time in slot`. *)

SlotTimes ==
    {time_fromisoformat(s) :
        s \in {<<0, 0>>, <<9, 0>>, <<9, 0, 30>>, <<9, 30>>, <<18, 0>>, <<23, 59, 59>>}}

Contains(slot, check_time) ==
    /\ last' = Call("TimeSlot.__contains__", [slot |-> slot, check_time |-> check_time],
                    masters, Some(TimeSlot_contains(slot, check_time)))
    /\ UNCHANGED <<jobs, masters, today, clock, handlers>>

NextSlot ==
    \E start \in SlotTimes, end \in SlotTimes, check_time \in SlotTimes :
        Contains(TimeSlot(start, end), check_time)

SpecSlot == Init /\ [][NextSlot]_vars

----------------------------------------------------------------------------
(* Jobs (main.py): a client request creates a job and assigns the master   *)
(* the intake lookup returns; a pending job is assigned on request.  Every  *)
(* handler opens a connection of its own: between the UPDATE of            *)
(* assign_job_to_master and its commit (or close) the handler holds the    *)
(* write lock of the database and the other writers wait.                   *)

MaxJobs == 1

(* process_client_request looks masters up in this one city *)
IntakeCity == "Moscow"

JobCategories == {Plumbing}

JobDayCalls == {<<1, NearDate, TRUE, Some(<<9, 0>>), Some(<<18, 0>>)>>}

JobBookCalls == {<<1, 1, NearDate>>}

(* each handler asks for job 1 for the master of its own number, and handler
   1 also for a job that may not exist *)
AssignCalls ==
    {[job_id |-> 1, master_id |-> Some(h), handler |-> h] : h \in Handlers}
    \cup {[job_id |-> MaxJobs + 1, master_id |-> Some(1), handler |-> 1]}

Job(category, master_id, status) ==
    [category |-> category, master_id |-> master_id, status |-> status]

Tables == [masters |-> masters, jobs |-> jobs]

InitJobs ==
    /\ masters = (1 :> Row(json_dumps(<<Plumbing>>), IntakeCity, Some(45), TRUE))
              @@ (2 :> Row(json_dumps(<<Electrical, Plumbing>>), IntakeCity, Some(50), TRUE))
    /\ jobs = << >>
    /\ today = 0
    /\ clock = 0
    /\ last = Call("init", << >>, Tables, None)
    /\ handlers = [h \in Handlers |-> Handler("idle", None, EmptySchedule, None)]

(* `if master_id`: None and 0 are falsy *)
MasterFound(master_id) == master_id # None /\ Val(master_id) # 0

(* an INSERT that leaves the status to the column default 'pending' *)
insert_job_DefaultStatus(table, category, master_id) ==
    Append(table, Job(category, master_id, "pending"))

(* INSERT INTO jobs (..., master_id, status) *)
insert_job(table, category, master_id) ==
    Append(table, Job(category, master_id,
                      IF MasterFound(master_id) THEN "accepted" ELSE "pending"))

(* no handler is between its UPDATE and its commit *)
WriteLockFree == \A h \in Handlers : handlers[h].pc # "updated"

(* process_client_request that books the job for the master on the day *)
ProcessClientRequest_Books(category) ==
    /\ Len(jobs) < MaxJobs
    /\ WriteLockFree
    /\ \E master_id \in find_available_master(masters, category, IntakeCity) :
          /\ jobs' = insert_job(jobs, category, master_id)
          /\ masters' = IF MasterFound(master_id)
                        THEN book_master_for_job(masters, Val(master_id), Len(jobs) + 1,
                                                 NearDate)
                        ELSE masters
          /\ last' = Call("process_client_request", [category |-> category], Tables,
                          [job_id |-> Len(jobs) + 1,
                           master_assigned |-> MasterFound(master_id),
                           master_id |-> IF MasterFound(master_id) THEN master_id ELSE None])
    /\ UNCHANGED <<today, clock, handlers>>

ProcessClientRequest(category) ==
    /\ Len(jobs) < MaxJobs
    /\ WriteLockFree
    /\ \E master_id \in find_available_master(masters, category, IntakeCity) :
          /\ jobs' = insert_job(jobs, category, master_id)
          /\ last' = Call("process_client_request", [category |-> category], Tables,
                          [job_id |-> Len(jobs) + 1,
                           master_assigned |-> MasterFound(master_id),
                           master_id |-> IF MasterFound(master_id) THEN master_id ELSE None])
    /\ UNCHANGED <<masters, today, clock, handlers>>

(* the rows UPDATE jobs ... WHERE id = ? AND status = 'pending' matches *)
assign_rowcount_AnyStatus(table, job_id) ==
    IF job_id \in DOMAIN table THEN 1 ELSE 0

assign_rowcount(table, job_id) ==
    IF job_id \in DOMAIN table /\ table[job_id].status = "pending" THEN 1 ELSE 0

(* SET master_id = ?, status = 'accepted' *)
assign_job(table, job_id, master_id) ==
    IF assign_rowcount(table, job_id) = 0 THEN table
    ELSE [table EXCEPT ![job_id] = [@ EXCEPT !.master_id = master_id, !.status = "accepted"]]

(* UPDATE jobs SET status = ? WHERE id = ? *)
update_job_status(table, job_id, new_status) ==
    IF job_id \in DOMAIN table
    THEN [table EXCEPT ![job_id] = [@ EXCEPT !.status = new_status]]
    ELSE table

(* the UPDATE of assign_job_to_master, not yet committed *)
AssignUpdate(call) ==
    /\ handlers[call.handler].pc = "idle"
    /\ handlers[call.handler].done = None
    /\ WriteLockFree
    /\ handlers' = [handlers EXCEPT ![call.handler] =
          Handler("updated",
                  Some([job_id |-> call.job_id, master_id |-> call.master_id,
                        rowcount |-> assign_rowcount(jobs, call.job_id)]),
                  EmptySchedule, None)]
    /\ UNCHANGED <<masters, jobs, today, clock, last>>

(* a row was updated: commit, answer 200 *)
AssignCommit(h) ==
    /\ handlers[h].pc = "updated"
    /\ Val(handlers[h].call).rowcount # 0
    /\ LET call == Val(handlers[h].call)
       IN  /\ jobs' = assign_job(jobs, call.job_id, call.master_id)
           /\ last' = Call("assign_job_to_master",
                           [handler |-> h, job_id |-> call.job_id,
                            master_id |-> call.master_id], Tables, Some(200))
           /\ handlers' = [handlers EXCEPT ![h] =
                 Handler("idle", None, EmptySchedule,
                         Some([job_id |-> call.job_id, master_id |-> call.master_id,
                               status |-> 200]))]
    /\ UNCHANGED <<masters, today, clock>>

(* no row was updated: close without commit, answer 400 *)
AssignReject(h) ==
    /\ handlers[h].pc = "updated"
    /\ Val(handlers[h].call).rowcount = 0
    /\ LET call == Val(handlers[h].call)
       IN  /\ last' = Call("assign_job_to_master",
                           [handler |-> h, job_id |-> call.job_id,
                            master_id |-> call.master_id], Tables, Some(400))
           /\ handlers' = [handlers EXCEPT ![h] =
                 Handler("idle", None, EmptySchedule,
                         Some([job_id |-> call.job_id, master_id |-> call.master_id,
                               status |-> 400]))]
    /\ UNCHANGED <<masters, jobs, today, clock>>

UpdateJobStatus(job_id, new_status) ==
    /\ WriteLockFree
    /\ jobs' = update_job_status(jobs, job_id, new_status)
    /\ last' = Call("update_job_status", [job_id |-> job_id, status |-> new_status],
                    Tables, Some(200))
    /\ UNCHANGED <<masters, today, clock, handlers>>

NextJobs ==
    \/ WriteLockFree /\ \E m \in DOMAIN masters : ActivateTerminal(m)
    \/ WriteLockFree /\ UpdateTerminalStatus(2, FALSE)
    \/ WriteLockFree /\ \E c \in JobDayCalls : UpdateDaySchedule(c[1], c[2], c[3], c[4], c[5])
    \/ WriteLockFree /\ \E c \in JobBookCalls : BookMasterForJob(c[1], c[2], c[3])
    \/ \E c \in JobCategories : ProcessClientRequest(c)
    \/ \E c \in AssignCalls : AssignUpdate(c)
    \/ \E h \in Handlers : AssignCommit(h)
    \/ \E h \in Handlers : AssignReject(h)
    \/ UpdateJobStatus(1, "cancelled")

SpecJobs == InitJobs /\ [][NextJobs]_vars

----------------------------------------------------------------------------
(* What the claims read: the record a master's row stores, and the call    *)
(* that ended last.                                                        *)

HasRow(db, master_id) == master_id \in DOMAIN db

Stored(db, master_id) ==
    IF HasRow(db, master_id) /\ Truthy(db[master_id].schedule_json)
    THEN Val(db[master_id].schedule_json) ELSE << >>

Ended(op) == last.op = op

IsoLE(a, b) ==
    \/ a[1] < b[1]
    \/ a[1] = b[1] /\ a[2] < b[2]
    \/ a[1] = b[1] /\ a[2] = b[2] /\ a[3] <= b[3]

Window(now) == now..(now + WeekLen - 1)

(* C1: a save replaces the whole record by the saver's copy: every date the
   call did not write holds the entry the saver loaded, not the one stored
   just before the save, and the date it wrote holds the booked_jobs the
   saver loaded (with the job appended by a booking).  So a call that saved
   between the saver's load and the saver's save is lost; C1_Witness is such
   a state: a booking has ended on a date that had an entry, and the job is
   not in the date's booked_jobs. *)
C1_LaterSaveWinsInFull ==
    Ended("save") =>
        LET call == last.args.call
            key == call.date.day
            loaded == last.args.loaded
            new == Stored(masters, call.master_id)
        IN  /\ DOMAIN new = DOMAIN loaded \cup {key}
            /\ \A k \in DOMAIN new \ {key} : new[k] = DaySchedule_to_dict(loaded[k])
            /\ new[key].booked_jobs =
                  (IF key \in DOMAIN loaded THEN loaded[key].booked_jobs ELSE << >>)
                  \o (IF call.op = "book_master_for_job" THEN <<call.job_id>> ELSE << >>)

C1_Witness ==
    \E h \in Handlers :
        /\ handlers[h].done # None
        /\ Val(handlers[h].done).saved
        /\ LET call == Val(handlers[h].done).call
               new == Stored(masters, call.master_id)
           IN  /\ call.op = "book_master_for_job"
               /\ call.date.day \in DOMAIN new
               /\ \A i \in 1..Len(new[call.date.day].booked_jobs) :
                      new[call.date.day].booked_jobs[i] # call.job_id

(* C2: update_day_schedule on a master of the table stores an entry at the
   date with the given availability whose booked_jobs are those the date had
   before the call, in the same order, and the empty sequence if the date had
   no entry. *)
C2_SetDayKeepsBookedJobs ==
    (Ended("update_day_schedule") /\ HasRow(masters, last.args.master_id)) =>
        LET m == last.args.master_id
            key == last.args.date.day
            old == Stored(last.before, m)
            new == Stored(masters, m)
        IN  /\ key \in DOMAIN new
            /\ new[key].available = last.args.available
            /\ new[key].booked_jobs =
                   IF key \in DOMAIN old THEN old[key].booked_jobs ELSE << >>

C2_Witness ==
    /\ Ended("update_day_schedule")
    /\ HasRow(masters, last.args.master_id)
    /\ LET old == Stored(last.before, last.args.master_id)
            key == last.args.date.day
       IN  /\ key \in DOMAIN old
           /\ old[key].booked_jobs = <<2, 1>>
           /\ old[key].available # last.args.available

(* C3: update_day_schedule with available = TRUE and no slot, or with a slot
   whose start is after its end, leaves the stored record unchanged, and no
   stored entry is available without a slot or has a slot with start after
   end. *)
C3_InvalidSlotRejected ==
    /\ (Ended("update_day_schedule") /\ last.args.available
          /\ (\/ ~Truthy(last.args.start_time)
              \/ ~Truthy(last.args.end_time)
              \/ ~IsoLE(Val(last.args.start_time) \o <<0>>,
                        Val(last.args.end_time) \o <<0>>)))
        => masters = last.before
    /\ \A m \in DOMAIN masters : \A k \in DOMAIN Stored(masters, m) :
          LET e == Stored(masters, m)[k]
          IN  e.available =>
                /\ Truthy(e.time_slot)
                /\ IsoLE(Val(e.time_slot).start, Val(e.time_slot).end)

(* C4: every stored entry with available = FALSE has no time slot. *)
C4_UnavailableHasNoSlot ==
    \A m \in DOMAIN masters : \A k \in DOMAIN Stored(masters, m) :
        ~Stored(masters, m)[k].available => Stored(masters, m)[k].time_slot = None

C4_Witness ==
    /\ Ended("update_day_schedule")
    /\ ~last.args.available
    /\ Truthy(last.args.start_time) /\ Truthy(last.args.end_time)
    /\ LET m == last.args.master_id
           key == last.args.date.day
       IN  /\ HasRow(masters, m)
           /\ key \in DOMAIN Stored(last.before, m)
           /\ Truthy(Stored(last.before, m)[key].time_slot)
           /\ Stored(masters, m)[key].time_slot = None

(* C5: is_master_available returns FALSE if the record has no entry for the
   date; with a time it returns available and start <= time <= end of the
   entry's slot, for every time including 00:00; without a time it returns
   the entry's available flag. *)
C5_IsAvailable ==
    Ended("is_master_available") =>
        LET data == Stored(masters, last.args.master_id)
            key == last.args.date.day
            t == last.args.check_time
        IN  last.ret =
              IF key \notin DOMAIN data THEN FALSE
              ELSE IF t = None THEN data[key].available
              ELSE /\ data[key].available
                   /\ data[key].time_slot # None
                   /\ IsoLE(Val(data[key].time_slot).start, time_isoformat(Val(t)))
                   /\ IsoLE(time_isoformat(Val(t)), Val(data[key].time_slot).end)

C5_Witness ==
    /\ Ended("is_master_available")
    /\ last.args.check_time = Some(Time(0, 0))
    /\ LET data == Stored(masters, last.args.master_id)
           key == last.args.date.day
       IN  /\ key \in DOMAIN data
           /\ data[key].available
           /\ data[key].time_slot # None
    /\ last.ret = FALSE

(* C6: book_master_for_job on a date that has an entry makes the job the last
   element of the date's booked_jobs, keeps the ids booked before in their
   order, and raises get_master_workload by exactly 1. *)
C6_BookAppends ==
    (Ended("book_master_for_job")
       /\ last.args.date.day \in DOMAIN Stored(last.before, last.args.master_id)) =>
        LET m == last.args.master_id
            key == last.args.date.day
            old == Stored(last.before, m)[key].booked_jobs
        IN  /\ key \in DOMAIN Stored(masters, m)
            /\ Stored(masters, m)[key].booked_jobs = old \o <<last.args.job_id>>
            /\ get_master_workload(masters, m, last.args.date)
                  = get_master_workload(last.before, m, last.args.date) + 1

C6_Witness ==
    /\ Ended("book_master_for_job")
    /\ last.args.job_id = 1
    /\ last.args.date.day \in DOMAIN Stored(last.before, last.args.master_id)
    /\ Stored(last.before, last.args.master_id)[last.args.date.day].booked_jobs = <<2>>

(* C7: book_master_for_job on a date that has no entry changes nothing: the
   table is as before the call, the date still has no entry and its workload
   is 0. *)
C7_BookMissingDayNoOp ==
    (Ended("book_master_for_job")
       /\ last.args.date.day \notin DOMAIN Stored(last.before, last.args.master_id)) =>
        /\ masters = last.before
        /\ last.args.date.day \notin DOMAIN Stored(masters, last.args.master_id)
        /\ get_master_workload(masters, last.args.master_id, last.args.date) = 0

C7_Witness ==
    /\ Ended("book_master_for_job")
    /\ HasRow(masters, last.args.master_id)
    /\ Stored(last.before, last.args.master_id) # << >>
    /\ last.args.date.day \notin DOMAIN Stored(last.before, last.args.master_id)

(* C8: create_weekly_schedule on a master of the table stores exactly the 7
   entries of the dates today .. today + 6; a date whose weekday is a working
   day is available with the slot (start, end), every other date is
   unavailable with no slot. *)
C8_WeeklyEntries ==
    (Ended("create_weekly_schedule") /\ HasRow(masters, last.args.master_id)) =>
        LET new == Stored(masters, last.args.master_id)
            wd == IF last.args.working_days = None THEN {0, 1, 2, 3, 4}
                  ELSE Val(last.args.working_days)
        IN  /\ DOMAIN new = Window(last.args.now)
            /\ Cardinality(DOMAIN new) = WeekLen
            /\ \A k \in DOMAIN new :
                  /\ new[k].date = k
                  /\ new[k].available = ((k % WeekLen) \in wd)
                  /\ new[k].time_slot =
                        IF (k % WeekLen) \in wd
                        THEN Some([start |-> last.args.default_start \o <<0>>,
                                   end |-> last.args.default_end \o <<0>>])
                        ELSE None

C8_Witness ==
    /\ Ended("create_weekly_schedule")
    /\ HasRow(masters, last.args.master_id)
    /\ last.args.now = 1
    /\ last.args.working_days = Some({1, 5, 6})
    /\ Stored(masters, last.args.master_id)[WeekLen].available = FALSE
    /\ Stored(masters, last.args.master_id)[1].available = TRUE

(* C9: after create_weekly_schedule the keys of the master's record are the 7
   dates of the window, and no entry stored before for a date outside the
   window is left. *)
C9_WeeklyDropsOtherDates ==
    (Ended("create_weekly_schedule") /\ HasRow(masters, last.args.master_id)) =>
        LET old == Stored(last.before, last.args.master_id)
            new == Stored(masters, last.args.master_id)
        IN  /\ DOMAIN new \subseteq Window(last.args.now)
            /\ \A k \in DOMAIN old \ Window(last.args.now) : k \notin DOMAIN new

C9_Witness ==
    /\ Ended("create_weekly_schedule")
    /\ HasRow(masters, last.args.master_id)
    /\ FarDay \in DOMAIN Stored(last.before, last.args.master_id)
    /\ FarDay \notin DOMAIN Stored(masters, last.args.master_id)

Candidates(db, specialization, city, date, check_time) ==
    {id \in DOMAIN db :
        /\ db[id].is_active
        /\ db[id].city = city
        /\ Like(db[id].specializations, specialization)
        /\ is_master_available(db, id, date, check_time)}

(* the rating of the masters table, 5.0 where the column is NULL *)
StoredRating(db, master_id) ==
    IF db[master_id].rating = None THEN 50 ELSE Val(db[master_id].rating)

(* C10: find_best_available_master returns a candidate whose score,
   rating * 10 - workload on the date, is the maximum over the candidates. *)
C10_BestHasMaxScore ==
    (Ended("find_best_available_master") /\ last.ret # None) =>
        LET cands == Candidates(masters, last.args.specialization, last.args.city,
                                last.args.date, last.args.check_time)
            score(id) == StoredRating(masters, id)
                         - get_master_workload(masters, id, last.args.date)
        IN  /\ Val(last.ret) \in cands
            /\ \A c \in cands : score(Val(last.ret)) >= score(c)

(* C11: among the candidates of the maximum score, as the code scores them,
   find_best_available_master returns the one with the smallest id, whatever
   the order of the rows the SELECT returned. *)
C11_TieBreakSmallestId ==
    (Ended("find_best_available_master") /\ last.ret # None) =>
        LET cands == Candidates(masters, last.args.specialization, last.args.city,
                                last.args.date, last.args.check_time)
            best == {c \in cands :
                        \A d \in cands : Score(masters, c, last.args.date)
                                           >= Score(masters, d, last.args.date)}
        IN  \A c \in best : Val(last.ret) <= c

(* the tags of a specializations text: what stands between two quotes *)
RECURSIVE TagsOf(_)
TagsOf(text) ==
    IF text = << >> THEN {}
    ELSE IF Head(text) # "\"" THEN TagsOf(Tail(text))
    ELSE LET rest == Tail(text)
             n == CHOOSE i \in 1..Len(rest) :
                      rest[i] = "\"" /\ \A j \in 1..(i - 1) : rest[j] # "\""
         IN  {SubSeq(rest, 1, n - 1)} \cup TagsOf(SubSeq(rest, n + 1, Len(rest)))

(* the masters that are active, of the city, have the specialization as one of
   their tags and are available on the date (at the time) *)
TagCandidates(db, specialization, city, date, check_time) ==
    {id \in DOMAIN db :
        /\ db[id].is_active
        /\ db[id].city = city
        /\ specialization \in TagsOf(db[id].specializations)
        /\ is_master_available(db, id, date, check_time)}

Range(seq) == {seq[i] : i \in 1..Len(seq)}

(* C12: find_best_available_master returns None exactly when no master is
   active, of the city, has the specialization among its tags and is
   available; a master it returns is one of these. *)
C12_NoneIffNoCandidate ==
    Ended("find_best_available_master") =>
        LET cands == TagCandidates(masters, last.args.specialization, last.args.city,
                                   last.args.date, last.args.check_time)
        IN  /\ (last.ret = None) <=> (cands = {})
            /\ (last.ret # None) => (Val(last.ret) \in cands)

(* C13: get_available_masters returns exactly the masters that are active, of
   the city, have the specialization as one of their tags and are available;
   a tag the query is only a part of does not count. *)
C13_CandidatesByTag ==
    Ended("get_available_masters") =>
        Range(last.ret) = TagCandidates(masters, last.args.specialization, last.args.city,
                                        last.args.date, last.args.check_time)

(* the masters the intake lookup selects from *)
IntakeEligible(db, category, city, terminal) ==
    {id \in DOMAIN db :
        /\ db[id].is_active
        /\ terminal => db[id].terminal_active
        /\ db[id].city = city
        /\ Like(db[id].specializations, category)}

HighestRated(db, id, ids) ==
    /\ id \in ids
    /\ \A o \in ids : db[o].rating # None =>
           (db[id].rating # None /\ Val(db[id].rating) >= Val(db[o].rating))

(* C14 as claimed: find_available_master returns a highest-rated master among
   the active masters of the city whose specializations match, and None only
   when there is no such master. *)
C14_HighestRatedActive ==
    Ended("find_available_master") =>
        LET ids == IntakeEligible(masters, last.args.category, last.args.city, FALSE)
        IN  /\ (last.ret = None) => (ids = {})
            /\ (last.ret # None) => HighestRated(masters, Val(last.ret), ids)

(* C14 amended: find_available_master returns a highest-rated master among
   the masters that are active, have their terminal active, are of the city
   and whose specializations match the category; it returns None exactly when
   no such master exists.  Schedule and workload play no part. *)
C14_HighestRatedTerminalActive ==
    Ended("find_available_master") =>
        LET ids == IntakeEligible(masters, last.args.category, last.args.city, TRUE)
        IN  /\ (last.ret = None) <=> (ids = {})
            /\ (last.ret # None) => HighestRated(masters, Val(last.ret), ids)

(* master 2 (4.5) is returned, on its day off, although master 1 (5.0) is
   active and matches: the terminal of master 1 is off and that of master 3
   (no rating) is on *)
C14_Witness ==
    /\ HasKey(get_master_schedule(masters, 2), strftime(NearDate))
    /\ ~is_master_available(masters, 2, NearDate, None)
    /\ Ended("find_available_master")
    /\ last.args.category = Electrical
    /\ last.ret = Some(2)
    /\ ~masters[1].terminal_active
    /\ masters[3].terminal_active
    /\ masters[3].rating = None

(* C15: a job that was in booked_jobs of a master's date before a call of
   ScheduleManager is in booked_jobs of that date after the call. *)
C15_BookedStaysBooked ==
    \A m \in DOMAIN last.before :
        \A k \in DOMAIN Stored(last.before, m) :
            \A job \in Range(Stored(last.before, m)[k].booked_jobs) :
                /\ k \in DOMAIN Stored(masters, m)
                /\ job \in Range(Stored(masters, m)[k].booked_jobs)

BookedOn(record, key) == IF key \in DOMAIN record THEN record[key].booked_jobs ELSE << >>

(* C16: after update_day_schedule, the same call made again leaves every
   stored record as it is, and the booked_jobs of the date after the second
   call are those from before the first. *)
C16_SetDayIdempotent ==
    Ended("update_day_schedule") =>
        LET a == last.args
            twice == update_day_schedule(masters, a.master_id, a.date, a.available,
                                         a.start_time, a.end_time)
        IN  /\ twice = masters
            /\ BookedOn(Stored(twice, a.master_id), a.date.day)
                 = BookedOn(Stored(last.before, a.master_id), a.date.day)

(* the first call changed an entry that has bookings *)
C16_Witness ==
    /\ Ended("update_day_schedule")
    /\ masters # last.before
    /\ Len(BookedOn(Stored(last.before, last.args.master_id), last.args.date.day)) > 0
    /\ Len(BookedOn(Stored(masters, last.args.master_id), last.args.date.day)) > 0

(* the hours from the stored confirmation of the master to the time of the call *)
HoursSinceConfirmation ==
    LET text == Val(masters[last.args.master_id].last_schedule_confirmation)
    IN  (last.args.now.day * 24 + last.args.now.hour) - (text[1] * 24 + text[2])

Confirmed(master_id) ==
    HasRow(masters, master_id) /\ masters[master_id].last_schedule_confirmation # None

(* C17: needs_schedule_confirmation is true for a master with no stored
   confirmation, true when more than 12 hours have passed since the stored
   confirmation, and false otherwise, also after exactly 12 hours. *)
C17_NeedsConfirmation ==
    Ended("needs_schedule_confirmation") =>
        /\ ~Confirmed(last.args.master_id) => (last.ret = Some(TRUE))
        /\ (Confirmed(last.args.master_id) /\ HoursSinceConfirmation >= 13)
               => (last.ret = Some(TRUE))
        /\ (Confirmed(last.args.master_id) /\ HoursSinceConfirmation <= 12)
               => (last.ret = Some(FALSE))

(* asked exactly 12 hours after the confirmation *)
C17_Witness ==
    /\ Ended("needs_schedule_confirmation")
    /\ Confirmed(last.args.master_id)
    /\ HoursSinceConfirmation = 12
    /\ last.ret = Some(FALSE)

(* C18: a master with nothing stored loads as the empty mapping, and after
   update_day_schedule or create_weekly_schedule for any master id, with or
   without a row in the masters table, get_master_schedule returns a record
   that has the written entries. *)
C18_WriteCreatesRecord ==
    /\ \A m \in {1, 2} : (Stored(masters, m) = << >>)
                            => (get_master_schedule(masters, m) = EmptySchedule)
    /\ Ended("update_day_schedule") =>
           HasKey(get_master_schedule(masters, last.args.master_id),
                  strftime(last.args.date))
    /\ Ended("create_weekly_schedule") =>
           \A k \in Window(last.args.now) :
               HasKey(get_master_schedule(masters, last.args.master_id), k)

ReadOps ==
    {"is_master_available", "get_master_workload", "get_available_masters",
     "find_best_available_master"}

(* C19: is_master_available, get_master_workload, get_available_masters and
   find_best_available_master leave the masters table, and so every master's
   stored schedule record, as it was before the call. *)
C19_ReadsLeaveRecords ==
    (last.op \in ReadOps) => (masters = last.before)

(* a master with a booking was found, and another master has nothing stored *)
C19_Witness ==
    /\ Ended("find_best_available_master")
    /\ last.ret # None
    /\ Booked(masters, Val(last.ret)) > 0
    /\ \E m \in DOMAIN masters : masters[m].schedule_json = None

(* the seconds from midnight to a time of day *)
SecondOfDay(t) == t.hour * 3600 + t.minute * 60 + t.second

(* C20: for a slot whose start is not after its end, a time is in the slot
   exactly when it is neither before the start nor after the end; the start
   and the end themselves are in the slot. *)
C20_SlotContains ==
    (Ended("TimeSlot.__contains__")
        /\ SecondOfDay(last.args.slot.start) <= SecondOfDay(last.args.slot.end)) =>
        (last.ret = Some(/\ SecondOfDay(last.args.slot.start) <= SecondOfDay(last.args.check_time)
                         /\ SecondOfDay(last.args.check_time) <= SecondOfDay(last.args.slot.end)))

(* the end of a slot, half a minute after its start, is in the slot *)
C20_Witness ==
    /\ Ended("TimeSlot.__contains__")
    /\ last.args.slot.start = Time(9, 0)
    /\ SecondOfDay(last.args.slot.end) = SecondOfDay(last.args.slot.start) + 30
    /\ last.args.check_time = last.args.slot.end
    /\ last.ret = Some(TRUE)

(* C21: process_client_request stores the new job as 'accepted' with the
   master the intake lookup returned exactly when it returned one, and as
   'pending' with no master otherwise; master_assigned in the response says
   whether the stored status is 'accepted'. *)
C21_IntakeStatus ==
    Ended("process_client_request") =>
        LET job == jobs[last.ret.job_id]
            found == find_available_master(last.before.masters, last.args.category,
                                           IntakeCity)
        IN  /\ Len(jobs) = Len(last.before.jobs) + 1
            /\ last.ret.job_id = Len(jobs)
            /\ (found # {None}) <=> (job.status = "accepted")
            /\ (found = {None}) <=> (job.status = "pending" /\ job.master_id = None)
            /\ (job.status = "accepted") => (job.master_id \in found)
            /\ last.ret.master_assigned <=> (job.status = "accepted")
            /\ last.ret.master_id = job.master_id

(* a job was created for master 1 while master 2, rated higher, has its
   terminal off *)
C21_Witness ==
    /\ Ended("process_client_request")
    /\ jobs[1].status = "accepted"
    /\ jobs[1].master_id = Some(1)
    /\ last.ret.master_assigned
    /\ ~masters[2].terminal_active

Occurrences(seq, x) == Cardinality({i \in 1..Len(seq) : seq[i] = x})

(* C22: book_master_for_job on a date that has an entry always appends: the
   job occurs once more in booked_jobs than before and the workload of the
   date is one higher, also when the job was booked there already and when
   the entry is not available. *)
C22_BookNoChecks ==
    (/\ Ended("book_master_for_job")
     /\ last.args.date.day \in DOMAIN Stored(last.before, last.args.master_id)) =>
        LET m == last.args.master_id
            key == last.args.date.day
            old == Stored(last.before, m)[key].booked_jobs
            new == BookedOn(Stored(masters, m), key)
        IN  /\ Occurrences(new, last.args.job_id) = Occurrences(old, last.args.job_id) + 1
            /\ Len(new) = Len(old) + 1
            /\ get_master_workload(masters, m, last.args.date)
                 = get_master_workload(last.before, m, last.args.date) + 1

(* the job is booked a second time, on a day that is not available *)
C22_Witness ==
    /\ Ended("book_master_for_job")
    /\ last.args.date.day \in DOMAIN Stored(last.before, last.args.master_id)
    /\ ~Stored(last.before, last.args.master_id)[last.args.date.day].available
    /\ Stored(masters, last.args.master_id)[last.args.date.day].booked_jobs
         = <<last.args.job_id, last.args.job_id>>
    /\ get_master_workload(masters, last.args.master_id, last.args.date) = 2

(* C23: update_day_schedule keeps every date key of the master's record and
   leaves the entry of every date but the written one, and every other row of
   the masters table, as stored before. *)
C23_SetDayFrame ==
    Ended("update_day_schedule") =>
        LET m == last.args.master_id
            old == Stored(last.before, m)
            new == Stored(masters, m)
        IN  /\ DOMAIN old \subseteq DOMAIN new
            /\ DOMAIN new \subseteq DOMAIN old \cup {last.args.date.day}
            /\ \A k \in DOMAIN old \ {last.args.date.day} : new[k] = old[k]
            /\ DOMAIN masters = DOMAIN last.before
            /\ \A o \in DOMAIN masters \ {m} : masters[o] = last.before[o]

(* the near date is written while the far date holds a booking *)
C23_Witness ==
    /\ Ended("update_day_schedule")
    /\ last.args.date = NearDate
    /\ masters # last.before
    /\ FarDay \in DOMAIN Stored(last.before, last.args.master_id)
    /\ Stored(masters, last.args.master_id)[FarDay].booked_jobs = <<1>>
    /\ NearDate.day \in DOMAIN Stored(last.before, last.args.master_id)

(* the dates a record of the model can hold *)
AllDays == 0..(FarDay + WeekLen)

(* C24: after create_weekly_schedule the workload of the master is 0 on every
   date, the dates of the new week that had booked jobs included. *)
C24_WeeklyResetsBookings ==
    Ended("create_weekly_schedule") =>
        \A d \in AllDays :
            get_master_workload(masters, last.args.master_id, DateTime(d, 0, 0)) = 0

(* a day of the new week had two bookings before the call *)
C24_Witness ==
    /\ Ended("create_weekly_schedule")
    /\ HasRow(masters, last.args.master_id)
    /\ get_master_workload(last.before, last.args.master_id, NearDate) = 2
    /\ NearDate.day \in Window(last.args.now)
    /\ NearDate.day \in DOMAIN Stored(masters, last.args.master_id)

(* C25: book_master_for_job on a date that has an entry leaves the date,
   available and time_slot of that entry, the entries of all other dates and
   the set of date keys as stored before. *)
C25_BookFrame ==
    (/\ Ended("book_master_for_job")
     /\ last.args.date.day \in DOMAIN Stored(last.before, last.args.master_id)) =>
        LET m == last.args.master_id
            key == last.args.date.day
            old == Stored(last.before, m)
            new == Stored(masters, m)
        IN  /\ DOMAIN new = DOMAIN old
            /\ new[key].date = old[key].date
            /\ new[key].available = old[key].available
            /\ new[key].time_slot = old[key].time_slot
            /\ \A k \in DOMAIN old \ {key} : new[k] = old[k]
            /\ \A o \in DOMAIN masters \ {m} : masters[o] = last.before[o]

(* an available day with a slot is booked while another date holds an entry *)
C25_Witness ==
    /\ Ended("book_master_for_job")
    /\ last.args.date = NearDate
    /\ NearDate.day \in DOMAIN Stored(last.before, last.args.master_id)
    /\ Stored(masters, last.args.master_id)[NearDate.day].available
    /\ Stored(masters, last.args.master_id)[NearDate.day].time_slot # None
    /\ FarDay \in DOMAIN Stored(masters, last.args.master_id)
    /\ masters # last.before

(* C26: while the handlers write the records of different masters, the copy
   a call has loaded is the record stored for its master at every later step,
   so its save loses no update, and a save or create_weekly_schedule for one
   master leaves the row of every other master as it was. *)
C26_MastersApart ==
    /\ \A h \in Handlers :
           (handlers[h].pc = "loaded") =>
               (handlers[h].schedule
                  = get_master_schedule(masters, Val(handlers[h].call).master_id))
    /\ Ended("save") =>
           /\ last.args.loaded = get_master_schedule(last.before, last.args.call.master_id)
           /\ \A o \in DOMAIN masters \ {last.args.call.master_id} :
                  masters[o] = last.before[o]
    /\ Ended("create_weekly_schedule") =>
           \A o \in DOMAIN masters \ {last.args.master_id} : masters[o] = last.before[o]

(* handler 2 saves a booking of master 2 while the call of handler 1 is
   between its load and its save and the record of master 1 holds a week *)
C26_Witness ==
    /\ Ended("save")
    /\ last.args.handler = 2
    /\ last.args.call.op = "book_master_for_job"
    /\ Stored(masters, 2)[NearDate.day].booked_jobs = <<2>>
    /\ handlers[1].pc = "loaded"
    /\ WeekLen - 1 \in DOMAIN Stored(masters, 1)

(* C27: with two masters of equal rating that start available on the date
   with no bookings, after any number of rounds of find_best_available_master
   followed by book_master_for_job for the master returned, the workloads of
   the two on the date differ by at most one. *)
C27_WorkloadBalanced ==
    LET a == get_master_workload(masters, 1, NearDate)
        b == get_master_workload(masters, 2, NearDate)
    IN  a - b \in {-1, 0, 1}

(* five rounds were booked, the last one for master 2 *)
C27_Witness ==
    /\ Ended("find_best_then_book")
    /\ last.ret = Some(2)
    /\ get_master_workload(masters, 1, NearDate) = 2
    /\ get_master_workload(masters, 2, NearDate) = 3

Answered(h, job_id, status) ==
    /\ handlers[h].done # None
    /\ Val(handlers[h].done).job_id = job_id
    /\ Val(handlers[h].done).status = status

(* C28: assign_job_to_master answers 400 and leaves the jobs table as it was
   when the job is missing or not pending; it answers 200 only for a pending
   job, which is then accepted with the master of the request; of two
   requests for the same job at most one is answered 200, and the stored
   master is that of the request answered 200. *)
C28_AssignOnlyPending ==
    /\ (Ended("assign_job_to_master") /\ last.ret = Some(400)) =>
           /\ \/ last.args.job_id \notin DOMAIN last.before.jobs
              \/ last.before.jobs[last.args.job_id].status # "pending"
           /\ jobs = last.before.jobs
    /\ (Ended("assign_job_to_master") /\ last.ret = Some(200)) =>
           /\ last.args.job_id \in DOMAIN last.before.jobs
           /\ last.before.jobs[last.args.job_id].status = "pending"
           /\ jobs[last.args.job_id].status = "accepted"
           /\ jobs[last.args.job_id].master_id = last.args.master_id
           /\ \A j \in DOMAIN jobs \ {last.args.job_id} : jobs[j] = last.before.jobs[j]
    /\ \A j \in DOMAIN jobs : \A h \in Handlers :
           Answered(h, j, 200) =>
               /\ \A o \in Handlers \ {h} : ~Answered(o, j, 200)
               /\ jobs[j].master_id = Val(handlers[h].done).master_id

(* both handlers asked for job 1, created pending: handler 2 was answered 200
   and handler 1 400, and the job is stored for master 2 *)
C28_Witness ==
    /\ Answered(1, 1, 400)
    /\ Answered(2, 1, 200)
    /\ jobs[1].status = "accepted"
    /\ jobs[1].master_id = Some(2)
    /\ Ended("assign_job_to_master")
    /\ last.args.handler = 1

(* C29: process_client_request leaves the masters table as it was: the
   booked_jobs and the workload of every master on every date, and the score
   find_best_available_master gives the master, are those from before the
   call, also for the master the job was assigned to. *)
C29_IntakeLeavesSchedules ==
    Ended("process_client_request") =>
        /\ masters = last.before.masters
        /\ \A m \in DOMAIN masters : \A d \in AllDays :
               /\ get_master_workload(masters, m, DateTime(d, 0, 0))
                    = get_master_workload(last.before.masters, m, DateTime(d, 0, 0))
               /\ Score(masters, m, DateTime(d, 0, 0))
                    = Score(last.before.masters, m, DateTime(d, 0, 0))

(* the job was assigned to master 1, who is available on the day and has one
   job booked there *)
C29_Witness ==
    /\ Ended("process_client_request")
    /\ last.ret.master_id = Some(1)
    /\ jobs[last.ret.job_id].status = "accepted"
    /\ is_master_available(masters, 1, NearDate, None)
    /\ get_master_workload(masters, 1, NearDate) = 1

(* C30: the score find_best_available_master gives a candidate is 50 minus
   the workload when the stored rating is NULL or 0, and ten times the
   stored rating minus the workload otherwise. *)
C30_ScoreOfRating ==
    Ended("find_best_available_master") =>
        \A i \in 1..Len(last.args.master_scores) :
            LET m == last.args.master_scores[i][1]
                score == last.args.master_scores[i][2]
                rating == masters[m].rating
                workload == Len(BookedOn(Stored(masters, m), last.args.date.day))
            IN  /\ (rating = None \/ rating = Some(0)) => (score = 50 - workload)
                /\ (rating # None /\ rating # Some(0)) => (score = Val(rating) - workload)

(* a master with the stored rating 0 and one booking is scored 49, like the
   master rated 4.9 with no booking *)
C30_Witness ==
    /\ Ended("find_best_available_master")
    /\ masters[3].rating = Some(0)
    /\ <<3, 49>> \in Range(last.args.master_scores)
    /\ <<2, 49>> \in Range(last.args.master_scores)
    /\ <<1, 50>> \in Range(last.args.master_scores)

====
